---- MODULE Spec2Model ----
(***************************************************************************)
(* Model of facefusion/utilities.py: format_value and the log_call_path    *)
(* decorator (its wrapper, the trace_calls hook it installs with           *)
(* sys.settrace, and the appends to the two dated log files).              *)
(*                                                                         *)
(* A wrapper invocation is an entry of `inv`.  Each thread has its own     *)
(* stack of running wrapper invocations and its own trace hook             *)
(* (sys.settrace is per thread); the log files are shared by all threads.  *)
(*                                                                         *)
(* Spec is one thread with every outcome of the target and of open();      *)
(* SpecThreads is all threads with no failure; SpecFormat is format_value  *)
(* called on its own on any one value.                                     *)
(***************************************************************************)
EXTENDS Integers, Sequences, FiniteSets, TLC

(* ------------------------------ bounds --------------------------------- *)
\* threads of the host process that call wrapped callables
NumThreads == 2
\* wrapper invocations in one behaviour (all threads together)
MaxInv == 2
\* function calls one piece of code makes itself (one target, or one thread
\* outside any wrapped callable)
MaxSteps == 1
\* text lines the file object buffers before it flushes them to the file
BufLines == 8

Threads == 1..NumThreads
InvIds == 1..MaxInv

(* ------------------------------ values --------------------------------- *)
\* A Python value, by what format_value asks of it: the isinstance tests,
\* hasattr(value, '__dict__'), the texts it renders, and whether the value's
\* own __len__, keys() or __str__ raises when called.
Plain ==
  [parser |-> FALSE, ndarray |-> FALSE, seq |-> FALSE, dict |-> FALSE,
   fields |-> FALSE, typeName |-> "object", shape |-> "", dtype |-> "",
   len |-> "", keys |-> "", str |-> "",
   lenRaises |-> FALSE, keysRaise |-> FALSE, strRaises |-> FALSE]

\* the int 5
V_int == [Plain EXCEPT !.typeName = "int", !.str = "5"]
\* the list [1, 2]
V_list == [Plain EXCEPT !.seq = TRUE, !.typeName = "list", !.len = "2",
                        !.str = "[1, 2]"]
\* an object of a class with __slots__ whose __str__ raises
V_badstr == [Plain EXCEPT !.typeName = "Slotted", !.strRaises = TRUE]
\* an object of a dict subclass whose keys() raises
V_baddict == [Plain EXCEPT !.dict = TRUE, !.fields = TRUE,
                           !.typeName = "LazyDict", !.keysRaise = TRUE]
\* None
V_none == [Plain EXCEPT !.typeName = "NoneType", !.str = "None"]

\* The values format_value is applied to on its own.  A value is an
\* instance of at most one of numpy.ndarray, list, tuple and dict (classes
\* whose instance layouts conflict cannot share a subclass); any of them,
\* or none, combines with ArgumentParser in a subclass; an ArgumentParser
\* always has a __dict__; type(value).__name__ is the builtin's name only
\* for an instance of the builtin itself, which has no __dict__.
Kinds == {"object", "ndarray", "list", "tuple", "dict"}
Values ==
  {[Plain EXCEPT !.parser = p,
                 !.ndarray = (k = "ndarray"),
                 !.seq = (k \in {"list", "tuple"}),
                 !.dict = (k = "dict"),
                 !.fields = (p \/ f),
                 !.typeName = IF p \/ f THEN "Custom" ELSE k,
                 !.shape = "(2, 2)", !.dtype = "float32", !.len = "2",
                 !.keys = "['a']", !.str = "text",
                 !.lenRaises = lr, !.keysRaise = kr, !.strRaises = sr] :
     p \in BOOLEAN, k \in Kinds, f \in BOOLEAN,
     lr \in BOOLEAN, kr \in BOOLEAN, sr \in BOOLEAN}

\* format_value with the test of line 23 moved in front of the others
format_value_fields_first(value) ==
  IF value.fields THEN [ok |-> TRUE, s |-> <<value.typeName, "()">>]
  ELSE IF value.parser THEN [ok |-> TRUE, s |-> <<"ArgumentParser()">>]
  ELSE IF value.ndarray
    THEN [ok |-> TRUE,
          s |-> <<"ndarray(shape=", value.shape, ", dtype=", value.dtype, ")">>]
  ELSE IF value.seq
    THEN IF value.lenRaises THEN [ok |-> FALSE, s |-> <<"__len__ raised">>]
         ELSE [ok |-> TRUE, s |-> <<value.typeName, "(len=", value.len, ")">>]
  ELSE IF value.dict
    THEN IF value.keysRaise THEN [ok |-> FALSE, s |-> <<"keys() raised">>]
         ELSE [ok |-> TRUE, s |-> <<"dict(keys=", value.keys, ")">>]
  ELSE IF value.strRaises THEN [ok |-> FALSE, s |-> <<"__str__ raised">>]
  ELSE [ok |-> TRUE, s |-> <<value.str>>]

\* format_value: the first matching shape decides the rendering, a sequence
\* of text pieces; ok is FALSE when the call raises instead, which the
\* len(), keys() and str() calls of lines 20, 22 and 25 can.
format_value(value) ==
  IF value.parser THEN [ok |-> TRUE, s |-> <<"ArgumentParser()">>]
  ELSE IF value.ndarray
    THEN [ok |-> TRUE,
          s |-> <<"ndarray(shape=", value.shape, ", dtype=", value.dtype, ")">>]
  ELSE IF value.seq
    THEN IF value.lenRaises THEN [ok |-> FALSE, s |-> <<"__len__ raised">>]
         ELSE [ok |-> TRUE, s |-> <<value.typeName, "(len=", value.len, ")">>]
  ELSE IF value.dict
    THEN IF value.keysRaise THEN [ok |-> FALSE, s |-> <<"keys() raised">>]
         ELSE [ok |-> TRUE, s |-> <<"dict(keys=", value.keys, ")">>]
  ELSE IF value.fields
    THEN [ok |-> TRUE, s |-> <<value.typeName, "()">>]
  ELSE IF value.strRaises THEN [ok |-> FALSE, s |-> <<"__str__ raised">>]
  ELSE [ok |-> TRUE, s |-> <<value.str>>]

(* ---------------------------- exceptions ------------------------------- *)
mkExc(type, msg, isException) ==
  [type |-> type, msg |-> msg, isException |-> isException]

NoExc == mkExc("", "", FALSE)
\* what a failing open(file_path, 'a') raises
OSErr == mkExc("OSError", "cannot open log file", TRUE)
\* what format_value raises when the value's own code raises
FormatErr == mkExc("RuntimeError", "formatting", TRUE)
\* what a target may raise: an Exception, or a BaseException that is none
TargetExcs == {mkExc("ValueError", "boom", TRUE),
               mkExc("KeyboardInterrupt", "", FALSE)}

(* ------------------------- callables and inputs ------------------------ *)
\* the wrapped callables, by func.__name__
Funcs == {"outer", "inner"}

\* a function entered while the hook may be installed: its co_name, the
\* last part of its co_filename, whether the name starts with '_', and the
\* values bound to its named parameters
mkCallee(name, file, underscore, params) ==
  [name |-> name, file |-> file, underscore |-> underscore, params |-> params]

\* the plain (unwrapped) functions a target or a caller may call
Callees == {mkCallee("helper", "app.py", FALSE, <<V_int>>),
            mkCallee("_private", "app.py", TRUE, <<>>)}

\* (*args, **kwargs) of an invocation; kwargs as a sequence of key/value
mkInput(args, kwargs) == [args |-> args, kwargs |-> kwargs]
Inputs == {mkInput(<<V_int, V_list>>, <<>>),
           mkInput(<<V_int, V_badstr>>, <<>>),
           mkInput(<<>>, <<[key |-> "opts", value |-> V_baddict]>>)}

\* what a target may return
Results == {V_int, V_badstr}

(* ------------------------------ log files ------------------------------ *)
\* log_file and func_log_file of a callable (one date: the timestamp is
\* taken once per invocation)
GlobalLog == "facefusion_DATE.log"
FuncLog(f) == f
Paths == {GlobalLog} \cup {FuncLog(f) : f \in Funcs}
FilePath(f, idx) == IF idx = 1 THEN GlobalLog ELSE FuncLog(f)

\* one element of a batch, the text of one f.write call; inv and batch
\* record which invocation wrote it, size is the number of text lines
Line(i, batch, tag, text, size) ==
  [inv |-> i, batch |-> batch, tag |-> tag, text |-> text, size |-> size]

RECURSIVE ChunkLen(_, _, _)
\* how many elements of batch after position pos one flush takes: as many
\* as fit in room text lines, and one at least
ChunkLen(batch, pos, room) ==
  IF pos >= Len(batch) THEN 0
  ELSE IF batch[pos + 1].size > room THEN 0
  ELSE 1 + ChunkLen(batch, pos + 1, room - batch[pos + 1].size)

Front(s) == SubSeq(s, 1, Len(s) - 1)
Last(s) == s[Len(s)]

(* ------------------- argument and result formatting -------------------- *)
\* the values lines 59-60 pass to format_value, in order
FormatOperands(args, kwargs) ==
  args \o [k \in 1..Len(kwargs) |-> kwargs[k].value]

\* index of the first operand whose formatting raises, 0 when none does
FirstBad(vals) ==
  IF \A k \in 1..Len(vals) : format_value(vals[k]).ok THEN 0
  ELSE CHOOSE k \in 1..Len(vals) :
         /\ ~format_value(vals[k]).ok
         /\ \A j \in 1..(k - 1) : format_value(vals[j]).ok

\* a try block without its except clause lets the formatting error out
ArgFormatUncaught(args, kwargs) ==
  LET bad == FirstBad(FormatOperands(args, kwargs))
  IN [raised |-> bad # 0,
      args_repr |-> [k \in 1..Len(args) |-> format_value(args[k]).s],
      kwargs_repr |-> [k \in 1..Len(kwargs) |->
                         <<kwargs[k].key>> \o format_value(kwargs[k].value).s]]

\* lines 57-63: args_repr and kwargs_repr; any formatting error replaces
\* both, and nothing is raised
ArgFormat(args, kwargs) ==
  LET vals == FormatOperands(args, kwargs)
      bad == FirstBad(vals)
  IN IF bad = 0
       THEN [raised |-> FALSE,
             args_repr |-> [k \in 1..Len(args) |-> format_value(args[k]).s],
             kwargs_repr |-> [k \in 1..Len(kwargs) |->
                         <<kwargs[k].key>> \o format_value(kwargs[k].value).s]]
       ELSE [raised |-> FALSE,
             args_repr |-> << <<"<error formatting args>">> >>,
             kwargs_repr |-> << <<"error">> \o format_value(vals[bad]).s >>]

\* lines 124-128: result_repr
ResultFormat(result) ==
  IF format_value(result).ok THEN format_value(result).s
  ELSE <<"<error formatting result: ">> \o format_value(result).s \o <<">">>

(* ------------------------------ batches -------------------------------- *)
NoneText == << <<"None">> >>

\* lines 66-75: log_entry
log_entry(i, func, caller, call_stack, args, kwargs, fmt) ==
  << Line(i, "entry", "SEP", <<>>, 1),
     Line(i, "entry", "TIMESTAMP", <<>>, 1),
     Line(i, "entry", "CALL STACK", <<call_stack>>, 1),
     Line(i, "entry", "FUNCTION", << <<func>> >>, 1),
     Line(i, "entry", "CALLER", << <<caller>> >>, 1),
     Line(i, "entry", "ARGS",
          IF args # <<>> THEN fmt.args_repr ELSE NoneText, 1),
     Line(i, "entry", "KWARGS",
          IF kwargs # <<>> THEN fmt.kwargs_repr ELSE NoneText, 1),
     Line(i, "entry", "START", <<>>, 1) >>

\* line 133: the text lines of json.dumps(call, indent=2): the braces, one
\* line for each of the three keys and, for a dict of parameters that is
\* not empty, one line per parameter and one for its closing brace
DumpLines(call) ==
  IF call.error \/ call.args = <<>> THEN 5 ELSE 6 + Len(call.args)

\* lines 131-138: completion_entry, one element per element of nested_calls
completion_entry(i, calls, result_repr) ==
  << Line(i, "success", "NESTED CALLS", <<>>, 1) >>
  \o [k \in 1..Len(calls) |->
        Line(i, "success", "NESTED",
             << <<calls[k].function>>, <<calls[k].file>> >> \o calls[k].args,
             DumpLines(calls[k]))]
  \o << Line(i, "success", "RESULT", <<result_repr>>, 1),
        Line(i, "success", "DURATION", <<>>, 1),
        Line(i, "success", "END", << <<"completed successfully">> >>, 1),
        Line(i, "success", "SEP", <<>>, 1) >>

\* lines 152-158: error_entry
error_entry(i, func, e) ==
  << Line(i, "failure", "ERROR", << <<func>>, <<e.msg>> >>, 1),
     Line(i, "failure", "TRACEBACK", << <<e.type>> >>, 1),
     Line(i, "failure", "DURATION", <<>>, 1),
     Line(i, "failure", "END", << <<"failed">> >>, 1),
     Line(i, "failure", "SEP", <<>>, 1) >>

(* ------------------------------ tracing -------------------------------- *)
\* trace_calls without the try/except of lines 94-109: the error of a
\* parameter that cannot be formatted leaves the callback, nothing appended
trace_calls_uncaught(c) ==
  IF c.underscore \/ FirstBad(c.params) # 0 THEN <<>>
  ELSE << [function |-> c.name, file |-> c.file, error |-> FALSE,
           args |-> [k \in 1..Len(c.params) |-> format_value(c.params[k]).s]] >>

\* lines 89-110: what trace_calls appends for one 'call' event; error says
\* that args is the placeholder string of line 108, not the dict of line 100
trace_calls(c) ==
  IF c.underscore THEN <<>>
  ELSE LET bad == FirstBad(c.params)
       IN << [function |-> c.name,
              file |-> c.file,
              error |-> bad # 0,
              args |-> IF bad = 0
                         THEN [k \in 1..Len(c.params) |->
                                 format_value(c.params[k]).s]
                         ELSE << <<"<error getting args: ">>
                                 \o format_value(c.params[bad]).s
                                 \o <<">">> >>] >>

RECURSIVE TraceAll(_)
\* the entries the hook appends for a sequence of function entries
TraceAll(cs) ==
  IF cs = <<>> THEN <<>> ELSE trace_calls(cs[1]) \o TraceAll(Tail(cs))

\* the Python-level functions the wrapper enters itself
LibCall(name) == mkCallee(name, "lib", FALSE, <<>>)
\* lines 29-33: the wrapper's own frame, os.path.exists, and os.makedirs
\* when the directory is missing
EnterCalls(dirExists) ==
  <<mkCallee("wrapper", "utilities.py", FALSE, <<>>), LibCall("exists")>>
  \o (IF dirExists THEN <<>> ELSE <<LibCall("makedirs")>>)
\* lines 37-60: os.path.join twice, inspect.getfile, inspect.stack, then one
\* format_value call per operand up to the first that raises
PrologueCalls(args, kwargs) ==
  LET vals == FormatOperands(args, kwargs)
      bad == FirstBad(vals)
      n == IF bad = 0 THEN Len(vals) ELSE bad
  IN <<LibCall("join"), LibCall("join"), LibCall("getfile"), LibCall("stack")>>
     \o [k \in 1..n |-> mkCallee("format_value", "utilities.py", FALSE, <<vals[k]>>)]
\* line 154: traceback.format_exc
HandlerCalls == <<LibCall("format_exc")>>

(* ------------------------------- state --------------------------------- *)
VARIABLES
  inv,           \* the wrapper invocations: locals and position of each
  stack,         \* per thread, the running wrapper invocations, outermost first
  hook,          \* per thread, the invocation whose trace_calls is installed
                 \* by sys.settrace, 0 for None
  nested_calls,  \* per invocation, the list its trace_calls closure appends to
  files,         \* per path, the lines appended so far
  logDir,        \* whether the directory logs/ exists
  nextInv,       \* the next unused invocation id
  callerCalls,   \* per thread, calls made outside any wrapped callable
                 \* while a hook was installed
  observed,      \* the function entries the last step showed to a hook: the
                 \* hook's invocation, the functions entered, and the length
                 \* of its nested_calls before
  fv             \* a call of format_value on its own: the value, whether the
                 \* call was made, and what came of it

vars == <<inv, stack, hook, nested_calls, files, logDir, nextInv,
          callerCalls, observed, fv>>

mkOutcome(kind, val, exc) == [kind |-> kind, val |-> val, exc |-> exc]
NoOutcome == mkOutcome("none", V_none, NoExc)
Returned(r) == mkOutcome("return", r, NoExc)
Raised(e) == mkOutcome("raise", V_none, e)

\* an invocation that has not started
NoInv ==
  [pc |-> "unused", thread |-> 0, func |-> "", args |-> <<>>, kwargs |-> <<>>,
   args_repr |-> <<>>, kwargs_repr |-> <<>>, batch |-> <<>>, fileIdx |-> 0,
   pos |-> 0, steps |-> 0, pending |-> NoExc, exc |-> NoExc,
   result |-> V_none, result_repr |-> <<>>, calls |-> 0,
   calledArgs |-> <<>>, calledKwargs |-> <<>>, armed |-> 0, disarmed |-> 0,
   madeCalls |-> <<>>, ioErrors |-> {}, targetOutcome |-> NoOutcome, outcome |-> NoOutcome]

\* no function entry seen by a hook
NoObs == [hook |-> 0, calls |-> <<>>, before |-> 0]
\* no call of format_value made yet, on value v
NoCall(v) == [value |-> v, called |-> FALSE, out |-> [ok |-> TRUE, s |-> <<>>]]

\* the process before any wrapped callable is called
InitWrapper ==
  /\ inv = [i \in InvIds |-> NoInv]
  /\ stack = [t \in Threads |-> <<>>]
  /\ hook = [t \in Threads |-> 0]
  /\ nested_calls = [i \in InvIds |-> <<>>]
  /\ files = [p \in Paths |-> <<>>]
  /\ logDir = FALSE
  /\ nextInv = 1
  /\ callerCalls = [t \in Threads |-> 0]
  /\ observed = NoObs

Init ==
  /\ InitWrapper
  /\ fv = NoCall(V_none)

Top(t) == Last(stack[t])
WritePcs == {"entry_write", "success_write", "failure_write"}
\* thread t runs the body of a target that has no exception to deal with
InTarget(t) ==
  /\ stack[t] # <<>>
  /\ inv[Top(t)].pc = "target"
  /\ inv[Top(t)].pending = NoExc

\* the invocations of thread t between their sys.settrace(trace_calls) and
\* their sys.settrace(None)
Window(t) ==
  {j \in InvIds : inv[j].thread = t /\ inv[j].armed > inv[j].disarmed}

\* the entries es, each marked with the invocations w in whose window the
\* function entry happened
Stamped(es, w) ==
  [k \in 1..Len(es) |->
     [function |-> es[k].function, file |-> es[k].file,
      error |-> es[k].error, args |-> es[k].args, seen |-> w]]

\* nested_calls after the function entries cs happen on thread t: the global
\* trace function of the thread, if any, sees each of them
Traced(nc, t, cs) ==
  IF hook[t] = 0 THEN nc
  ELSE [nc EXCEPT ![hook[t]] = @ \o Stamped(TraceAll(cs), Window(t))]

\* what the hook of thread t, if any, is shown when cs are entered
Observe(t, cs) ==
  IF hook[t] = 0 THEN NoObs
  ELSE [hook |-> hook[t], calls |-> cs,
        before |-> Len(nested_calls[hook[t]])]

\* inv after invocation i, the top of thread t's stack, ends with outcome out;
\* an exception lands in the target that called it, if any
Finish(iv, t, i, out) ==
  LET done == [iv EXCEPT ![i].pc = "done", ![i].outcome = out]
  IN IF out.kind = "raise" /\ Len(stack[t]) > 1
       THEN [done EXCEPT ![stack[t][Len(stack[t]) - 1]].pending = out.exc]
       ELSE done

\* lines 149-158: the except clause is entered with e
Handle(rec, i, e) ==
  [rec EXCEPT !.pc = "failure_write", !.exc = e,
              !.batch = error_entry(i, rec.func, e),
              !.fileIdx = 1, !.pos = 0]

(* ------------------------------ actions -------------------------------- *)
\* lines 29-75: thread t calls the wrapped callable f with input in, from
\* outside any wrapped callable or from the body of a running target.  The
\* wrapper creates logs/ if it is missing (the test and the creation taken
\* as one step), takes names, caller and call stack, formats the arguments
\* and builds log_entry; whatever hook is installed on the thread sees the
\* functions entered on the way.
Invoke(t, f, in) ==
  LET i == nextInv
      fmt == ArgFormat(in.args, in.kwargs)
      caller == IF stack[t] = <<>> THEN "<module>" ELSE inv[Top(t)].func
      call_stack == [k \in 1..Len(stack[t]) |->
                       inv[stack[t][Len(stack[t]) - k + 1]].func]
                    \o <<"<module>">>
      rec == [NoInv EXCEPT !.pc = "entry_write", !.thread = t, !.func = f,
                           !.args = in.args, !.kwargs = in.kwargs,
                           !.args_repr = fmt.args_repr,
                           !.kwargs_repr = fmt.kwargs_repr,
                           !.batch = log_entry(i, f, caller, call_stack,
                                               in.args, in.kwargs, fmt),
                           !.fileIdx = 1]
      called == IF stack[t] = <<>> THEN inv
                ELSE [inv EXCEPT ![Top(t)].steps = @ + 1,
                                 ![Top(t)].madeCalls = Append(@, "wrapper")]
  IN /\ nextInv <= MaxInv
     /\ \/ stack[t] = <<>>
        \/ InTarget(t) /\ inv[Top(t)].steps < MaxSteps
     /\ nextInv' = nextInv + 1
     /\ logDir' = TRUE
     /\ nested_calls' =
          Traced(nested_calls, t,
                 EnterCalls(logDir) \o PrologueCalls(in.args, in.kwargs))
     /\ observed' =
          Observe(t, EnterCalls(logDir) \o PrologueCalls(in.args, in.kwargs))
     /\ IF fmt.raised
          THEN /\ inv' = [called EXCEPT
                            ![i] = [rec EXCEPT !.pc = "done",
                                               !.outcome = Raised(FormatErr)],
                            ![IF stack[t] = <<>> THEN i ELSE Top(t)].pending =
                               IF stack[t] = <<>> THEN NoExc ELSE FormatErr]
               /\ UNCHANGED stack
          ELSE /\ inv' = [called EXCEPT ![i] = rec]
               /\ stack' = [stack EXCEPT ![t] = Append(@, i)]
     /\ UNCHANGED <<hook, files, callerCalls, fv>>

\* a list that outlives the invocation: the one the installed hook fills
SharedList(t) == IF hook[t] = 0 THEN <<>> ELSE nested_calls[hook[t]]

\* line 87: nested_calls = [], a new list for each invocation
NewList(t) == <<>>

\* lines 113-116: sys.settrace(trace_calls), then func(*args, **kwargs),
\* whose own 'call' event is the first the new hook sees
Arm(t, i) ==
  LET rec == inv[i]
      target == mkCallee(rec.func, "app.py", FALSE,
                         FormatOperands(rec.args, rec.kwargs))
  IN /\ hook' = [hook EXCEPT ![t] = i]
     /\ nested_calls' =
          [nested_calls EXCEPT ![i] =
             NewList(t) \o Stamped(trace_calls(target), Window(t) \cup {i})]
     /\ observed' = [hook |-> i, calls |-> <<target>>,
                     before |-> Len(NewList(t))]
     /\ inv' = [inv EXCEPT ![i].pc = "target", ![i].armed = @ + 1,
                           ![i].calls = @ + 1,
                           ![i].calledArgs = rec.args,
                           ![i].calledKwargs = rec.kwargs,
                           ![i].batch = <<>>, ![i].fileIdx = 0, ![i].pos = 0]
     /\ UNCHANGED stack

\* returning what was logged instead of the result
ReturnLogged(rec) == [rec.result EXCEPT !.str = "logged"]

\* the value line 147 returns
ReturnValue(rec) == rec.result

\* an except clause that ends without raise: the wrapper returns None
Swallow(rec) == Returned(V_none)

\* line 166: the bare raise at the end of the except clause
Reraise(rec) == Raised(rec.exc)

\* lines 78-82, 141-145, 161-165: the file of the running loop iteration is
\* open; the next elements of the batch reach it, as many as one flush of
\* the buffered file object holds (the last flush is that of the close).
\* After the last line of the second file the wrapper goes on: it arms the
\* hook and calls the target (after the entry batch), returns the result
\* (line 147) or re-raises (line 166).
WriteChunk(t) ==
  /\ stack[t] # <<>>
  /\ inv[Top(t)].pc \in WritePcs
  /\ LET i == Top(t)
         rec == inv[i]
         fit == ChunkLen(rec.batch, rec.pos, BufLines)
         n == IF fit = 0 THEN 1 ELSE fit
         path == FilePath(rec.func, rec.fileIdx)
     IN /\ files' = [files EXCEPT ![path] =
                       @ \o SubSeq(rec.batch, rec.pos + 1, rec.pos + n)]
        /\ IF rec.pos + n < Len(rec.batch)
             THEN /\ inv' = [inv EXCEPT ![i].pos = rec.pos + n]
                  /\ observed' = NoObs
                  /\ UNCHANGED <<stack, hook, nested_calls>>
           ELSE IF rec.fileIdx = 1
             THEN /\ inv' = [inv EXCEPT ![i].fileIdx = 2, ![i].pos = 0]
                  /\ observed' = NoObs
                  /\ UNCHANGED <<stack, hook, nested_calls>>
           ELSE IF rec.pc = "entry_write"
             THEN Arm(t, i)
           ELSE /\ inv' = Finish(inv, t, i,
                                 IF rec.pc = "success_write"
                                   THEN Returned(ReturnValue(rec))
                                   ELSE Reraise(rec))
                /\ stack' = [stack EXCEPT ![t] = Front(@)]
                /\ observed' = NoObs
                /\ UNCHANGED <<hook, nested_calls>>
  /\ UNCHANGED <<logDir, nextInv, callerCalls, fv>>

\* the body of the entry loop in a try/except that passes: a failing open of
\* the first file is skipped, and the loop goes on with the second file
OpenFailIgnored(t) ==
  /\ stack[t] # <<>>
  /\ inv[Top(t)].pc \in WritePcs
  /\ inv[Top(t)].pos = 0
  /\ LET i == Top(t)
         failed == [inv EXCEPT ![i].ioErrors =
                      @ \cup {<<inv[i].pc, inv[i].fileIdx>>}]
     IN IF inv[i].pc = "entry_write" /\ inv[i].fileIdx = 1
          THEN /\ inv' = [failed EXCEPT ![i].fileIdx = 2]
               /\ observed' = NoObs
               /\ UNCHANGED <<stack, nested_calls>>
        ELSE IF inv[i].pc = "success_write"
          THEN /\ inv' = [failed EXCEPT ![i] = Handle(@, i, OSErr)]
               /\ nested_calls' = Traced(nested_calls, t, HandlerCalls)
               /\ observed' = Observe(t, HandlerCalls)
               /\ UNCHANGED stack
          ELSE /\ inv' = Finish(failed, t, i, Raised(OSErr))
               /\ stack' = [stack EXCEPT ![t] = Front(@)]
               /\ observed' = NoObs
               /\ UNCHANGED nested_calls
  /\ UNCHANGED <<hook, files, logDir, nextInv, callerCalls, fv>>

\* lines 79, 142, 162: open(file_path, 'a') raises.  Before the try block
\* and inside the except clause the error leaves the wrapper; inside the try
\* block the except clause of line 149 catches it.
OpenFail(t) ==
  /\ stack[t] # <<>>
  /\ inv[Top(t)].pc \in WritePcs
  /\ inv[Top(t)].pos = 0
  /\ LET i == Top(t)
         failed == [inv EXCEPT ![i].ioErrors =
                      @ \cup {<<inv[i].pc, inv[i].fileIdx>>}]
     IN IF inv[i].pc = "success_write"
          THEN /\ inv' = [failed EXCEPT ![i] = Handle(@, i, OSErr)]
               /\ nested_calls' = Traced(nested_calls, t, HandlerCalls)
               /\ observed' = Observe(t, HandlerCalls)
               /\ UNCHANGED stack
          ELSE /\ inv' = Finish(failed, t, i, Raised(OSErr))
               /\ stack' = [stack EXCEPT ![t] = Front(@)]
               /\ observed' = NoObs
               /\ UNCHANGED nested_calls
  /\ UNCHANGED <<hook, files, logDir, nextInv, callerCalls, fv>>

\* the target leaves by exception e: the except clause of line 149 takes an
\* Exception; anything else leaves the wrapper at once, no batch written.
\* Neither path calls sys.settrace.
TargetFails(t, i, e) ==
  /\ IF e.isException
       THEN /\ inv' = [inv EXCEPT ![i] =
                         Handle([@ EXCEPT !.targetOutcome = Raised(e),
                                          !.pending = NoExc], i, e)]
            /\ nested_calls' = Traced(nested_calls, t, HandlerCalls)
            /\ observed' = Observe(t, HandlerCalls)
            /\ UNCHANGED stack
       ELSE /\ inv' = Finish([inv EXCEPT ![i].targetOutcome = Raised(e),
                                         ![i].pending = NoExc],
                             t, i, Raised(e))
            /\ stack' = [stack EXCEPT ![t] = Front(@)]
            /\ observed' = NoObs
            /\ UNCHANGED nested_calls
  /\ UNCHANGED <<hook, files, logDir, nextInv, callerCalls, fv>>

\* the target calls the plain function c
TargetCall(t, c) ==
  /\ InTarget(t)
  /\ inv[Top(t)].steps < MaxSteps
  /\ inv' = [inv EXCEPT ![Top(t)].steps = @ + 1,
                        ![Top(t)].madeCalls =
                           IF c.underscore THEN @ ELSE Append(@, c.name)]
  /\ nested_calls' = Traced(nested_calls, t, <<c>>)
  /\ observed' = Observe(t, <<c>>)
  /\ UNCHANGED <<stack, hook, files, logDir, nextInv, callerCalls, fv>>

\* lines 116-138: the target returns r; sys.settrace(None); the result is
\* formatted and completion_entry built from this invocation's nested_calls
TargetReturn(t, r) ==
  /\ InTarget(t)
  /\ LET i == Top(t)
         repr == ResultFormat(r)
     IN inv' = [inv EXCEPT ![i].pc = "success_write",
                           ![i].targetOutcome = Returned(r),
                           ![i].result = r,
                           ![i].result_repr = repr,
                           ![i].disarmed = @ + 1,
                           ![i].batch = completion_entry(i, nested_calls[i], repr),
                           ![i].fileIdx = 1, ![i].pos = 0]
  /\ hook' = [hook EXCEPT ![t] = 0]
  /\ observed' = NoObs
  /\ UNCHANGED <<stack, nested_calls, files, logDir, nextInv,
                 callerCalls, fv>>

\* the target raises e itself
TargetRaise(t, e) ==
  /\ InTarget(t)
  /\ TargetFails(t, Top(t), e)

\* a wrapped callable the target called has raised: the target handles the
\* exception and goes on
TargetCatch(t) ==
  /\ stack[t] # <<>>
  /\ inv[Top(t)].pc = "target"
  /\ inv[Top(t)].pending # NoExc
  /\ inv' = [inv EXCEPT ![Top(t)].pending = NoExc]
  /\ observed' = NoObs
  /\ UNCHANGED <<stack, hook, nested_calls, files, logDir, nextInv,
                 callerCalls, fv>>

\* ... or does not handle it, and so leaves by that exception
TargetPropagate(t) ==
  /\ stack[t] # <<>>
  /\ inv[Top(t)].pc = "target"
  /\ inv[Top(t)].pending # NoExc
  /\ TargetFails(t, Top(t), inv[Top(t)].pending)

\* thread t, outside any wrapped callable, calls the plain function c; the
\* calls a hook sees are counted
CallerCall(t, c) ==
  /\ stack[t] = <<>>
  /\ callerCalls[t] < MaxSteps
  /\ callerCalls' = [callerCalls EXCEPT ![t] = IF hook[t] = 0 THEN @ ELSE @ + 1]
  /\ nested_calls' = Traced(nested_calls, t, <<c>>)
  /\ observed' = Observe(t, <<c>>)
  /\ UNCHANGED <<inv, stack, hook, files, logDir, nextInv, fv>>

\* one step of thread t
Step(t) ==
  \/ \E f \in Funcs, in \in Inputs : Invoke(t, f, in)
  \/ WriteChunk(t)
  \/ OpenFail(t)
  \/ \E c \in Callees : TargetCall(t, c)
  \/ \E r \in Results : TargetReturn(t, r)
  \/ \E e \in TargetExcs : TargetRaise(t, e)
  \/ TargetCatch(t)
  \/ TargetPropagate(t)
  \/ \E c \in Callees : CallerCall(t, c)

\* One thread of execution, every outcome of the target and of the file
\* system: sys.settrace and the wrapper's locals are per thread, so this is
\* what one thread does whatever the other threads do, up to the order of
\* the lines in the files.
MainThread == CHOOSE t \in Threads : TRUE
Next == Step(MainThread)

Spec == Init /\ [][Next]_vars

\* Several threads that call wrapped callables at the same time, where no
\* open() fails and no target raises: the files are what the threads share.
StepThreads(t) ==
  \/ \E f \in Funcs : Invoke(t, f, mkInput(<<V_int, V_list>>, <<>>))
  \/ WriteChunk(t)
  \/ TargetCall(t, mkCallee("helper", "app.py", FALSE, <<V_int>>))
  \/ TargetReturn(t, V_int)

NextThreads == \E t \in Threads : StepThreads(t)

SpecThreads == Init /\ [][NextThreads]_vars

\* format_value on its own: called once on any one value
FormatValue ==
  /\ ~fv.called
  /\ fv' = [fv EXCEPT !.called = TRUE, !.out = format_value(fv.value)]
  /\ UNCHANGED <<inv, stack, hook, nested_calls, files, logDir, nextInv,
                 callerCalls, observed>>

InitFormat ==
  /\ InitWrapper
  /\ \E v \in Values : fv = NoCall(v)

NextFormat == FormatValue

SpecFormat == InitFormat /\ [][NextFormat]_vars

(* ------------------------- reading the state --------------------------- *)
Done(i) == inv[i].pc = "done"
LogPaths(i) == {GlobalLog, FuncLog(inv[i].func)}

\* the lines invocation i has in file p, in file order
LinesOf(p, i) == SelectSeq(files[p], LAMBDA l : l.inv = i)
\* how many lines of batch b with tag invocation i has in file p
CountTag(p, i, b, tag) ==
  Cardinality({k \in 1..Len(files[p]) :
                 /\ files[p][k].inv = i
                 /\ files[p][k].batch = b
                 /\ files[p][k].tag = tag})
\* the kind of batch written at position pc
BatchOf(pc) ==
  IF pc = "entry_write" THEN "entry"
  ELSE IF pc = "success_write" THEN "success" ELSE "failure"
\* the last line of a batch of kind b
LastTag(b) == IF b = "entry" THEN "START" ELSE "SEP"
\* file p holds a whole batch of kind b of invocation i
HasBatch(p, i, b) == CountTag(p, i, b, LastTag(b)) >= 1

\* the function names of the nested-call lines of a batch, in order
NestedNames(batch) ==
  LET ls == SelectSeq(batch, LAMBDA l : l.tag = "NESTED")
  IN [k \in 1..Len(ls) |-> ls[k].text[1][1]]

RECURSIVE IsSubseq(_, _)
\* the elements of a occur in b, in the order of a
IsSubseq(a, b) ==
  IF a = <<>> THEN TRUE
  ELSE IF b = <<>> THEN FALSE
  ELSE IF a[1] = b[1] THEN IsSubseq(Tail(a), Tail(b))
  ELSE IsSubseq(a, Tail(b))

\* formatting the arguments, or the result, of invocation i raises
ArgsUnformattable(i) ==
  FirstBad(FormatOperands(inv[i].args, inv[i].kwargs)) # 0
ResultUnformattable(i) ==
  /\ inv[i].targetOutcome.kind = "return"
  /\ ~format_value(inv[i].targetOutcome.val).ok

(* ------------------------------- claims -------------------------------- *)

\* C1: once an invocation of the wrapped callable has completed, by return
\* or by exception, the trace hook it installed is no longer installed, so
\* later function entries are not seen by its trace callback.
C1_DisarmedAfterInvocation ==
  \A i \in InvIds : Done(i) => hook[inv[i].thread] # i

\* C2: whenever the target raised, the wrapper invocation ends by raising
\* that same exception, also when the failure batch is being written.
C2_SameExceptionReraised ==
  \A i \in InvIds :
    (Done(i) /\ inv[i].targetOutcome.kind = "raise")
      => inv[i].outcome = Raised(inv[i].targetOutcome.exc)

\* C3 as stated: whenever the target returned r, the wrapper invocation
\* returns r, and the target was called with the original arguments.
C3_ReturnsTargetResult ==
  \A i \in InvIds :
    (Done(i) /\ inv[i].targetOutcome.kind = "return")
      => /\ inv[i].outcome = Returned(inv[i].targetOutcome.val)
         /\ inv[i].calledArgs = inv[i].args
         /\ inv[i].calledKwargs = inv[i].kwargs

\* C3 amended: whenever the target returned r, it was called once with the
\* original arguments, and the wrapper invocation returns exactly r unless
\* opening a log file for the completion batch failed; then it raises that
\* I/O error.
C3_ReturnsResultUnlessWriteFails ==
  \A i \in InvIds :
    (Done(i) /\ inv[i].targetOutcome.kind = "return")
      => /\ inv[i].calls = 1
         /\ inv[i].calledArgs = inv[i].args
         /\ inv[i].calledKwargs = inv[i].kwargs
         /\ IF \E k \in 1..2 : <<"success_write", k>> \in inv[i].ioErrors
              THEN inv[i].outcome = Raised(OSErr)
              ELSE inv[i].outcome = Returned(inv[i].targetOutcome.val)

\* C3 witness: a target returned a value and so did the wrapper, and in
\* another invocation the completion batch could not be written.
C3_Witness ==
  /\ \E i \in InvIds :
       /\ Done(i)
       /\ inv[i].targetOutcome = Returned(V_badstr)
       /\ inv[i].outcome.kind = "return"
       /\ inv[i].args # <<>>
  /\ \E i \in InvIds :
       /\ Done(i)
       /\ inv[i].targetOutcome.kind = "return"
       /\ inv[i].outcome.kind = "raise"

\* C4: every invocation leaves, in each of its two log files, exactly one
\* entry batch and exactly one completion batch (success or failure, never
\* both, never none), and the same lines in both files.  Stated here for the
\* invocations during which every open() succeeded.
C4_OneEntryOneCompletion ==
  \A i \in InvIds :
    (Done(i) /\ inv[i].ioErrors = {})
      => /\ \A p \in LogPaths(i) :
              /\ CountTag(p, i, "entry", "START") = 1
              /\ CountTag(p, i, "success", "END")
                   + CountTag(p, i, "failure", "END") = 1
         /\ LinesOf(GlobalLog, i) = LinesOf(FuncLog(inv[i].func), i)

\* C5: every non-private function the target entered itself between arm and
\* its completion is in the completion batch, in call order, in the success
\* batch and in the failure batch alike.
C5_NestedCallsInCompletion ==
  \A i \in InvIds :
    (\/ inv[i].pc = "success_write"
     \/ inv[i].pc = "failure_write" /\ inv[i].targetOutcome.kind = "raise")
      => IsSubseq(inv[i].madeCalls, NestedNames(inv[i].batch))

\* C6: while an outermost invocation's target runs, the installed trace hook
\* is that invocation's: a wrapped callable called from inside neither
\* replaces it when it arms nor removes it when it disarms.
C6_OuterHookKept ==
  \A t \in Threads :
    (stack[t] # <<>> /\ inv[stack[t][1]].pc = "target")
      => hook[t] = stack[t][1]

\* C7: the target's own function entry is not among the nested calls of the
\* completion batch: none for a target that calls nothing, and otherwise
\* no entry for the target itself.
C7_TargetEntryNotRecorded ==
  \A i \in InvIds :
    inv[i].pc = "success_write"
      => LET names == NestedNames(inv[i].batch)
         IN /\ inv[i].steps = 0 => names = <<>>
            /\ \A k \in 1..Len(names) : names[k] # inv[i].func

\* C8: when writing a batch to one of the two files fails, the other file
\* still gets that batch, whichever of the two fails.
C8_WritesIndependent ==
  \A i \in InvIds :
    Done(i) =>
      \A err \in inv[i].ioErrors :
        HasBatch(FilePath(inv[i].func, 3 - err[2]), i, BatchOf(err[1]))

\* C9: in every file, the lines of one batch are contiguous: no line of
\* another batch lies between two lines of the same batch.
C9_BatchesNotInterleaved ==
  \A p \in Paths :
    LET same(a, b) == /\ files[p][a].inv = files[p][b].inv
                      /\ files[p][a].batch = files[p][b].batch
    IN \A k \in 1..(Len(files[p]) - 1) :
         ~same(k, k + 1)
           => \A m \in (k + 2)..Len(files[p]) : ~same(k, m)

\* the ARGS and KWARGS lines an invocation logs when formatting its
\* arguments raised
PlaceholderLogged(p, i) ==
  \E k \in 1..Len(files[p]) :
    /\ files[p][k].inv = i
    /\ files[p][k].tag = "KWARGS"
    /\ IF inv[i].kwargs # <<>>
         THEN files[p][k].text[1][1] = "error"
         ELSE files[p][k].text = NoneText
    /\ files[p][k - 1].tag = "ARGS"
    /\ files[p][k - 1].text =
         IF inv[i].args # <<>> THEN << <<"<error formatting args>">> >>
         ELSE NoneText

\* C10: a formatting failure never aborts the logged invocation.  If
\* formatting an argument raises, args_repr and kwargs_repr are the error
\* placeholders, the invocation goes on to write the entry batch (which, if
\* no open() fails, reaches both files with the placeholder) and the target
\* is then called once with the original arguments.  If formatting the
\* result raises, the placeholder is logged in its place and, if no open()
\* fails, the original result is returned.  No invocation ends by raising
\* the formatting error.
C10_FormattingNeverAborts ==
  \A i \in InvIds :
    /\ (inv[i].pc # "unused" /\ ArgsUnformattable(i))
         => /\ inv[i].args_repr = << <<"<error formatting args>">> >>
            /\ inv[i].kwargs_repr[1][1] = "error"
            /\ \/ inv[i].pc = "entry_write"
               \/ \E k \in 1..2 : <<"entry_write", k>> \in inv[i].ioErrors
               \/ /\ \A p \in LogPaths(i) :
                       (HasBatch(p, i, "entry") /\ PlaceholderLogged(p, i))
                  /\ inv[i].calls = 1
                  /\ inv[i].calledArgs = inv[i].args
                  /\ inv[i].calledKwargs = inv[i].kwargs
    /\ (inv[i].pc # "unused" /\ ResultUnformattable(i))
         => /\ inv[i].result_repr[1] = "<error formatting result: "
            /\ (Done(i) /\ inv[i].ioErrors = {})
                 => /\ inv[i].outcome = Returned(inv[i].targetOutcome.val)
                    /\ \A p \in LogPaths(i) :
                         \E k \in 1..Len(files[p]) :
                           /\ files[p][k].inv = i
                           /\ files[p][k].tag = "RESULT"
                           /\ files[p][k].text = <<inv[i].result_repr>>
    /\ Done(i) => inv[i].outcome.exc # FormatErr

\* C10 witness: an invocation whose arguments and whose result both fail to
\* format has called its target and returned the result.
C10_Witness ==
  \E i \in InvIds :
    /\ Done(i)
    /\ ArgsUnformattable(i)
    /\ ResultUnformattable(i)
    /\ inv[i].outcome = Returned(V_badstr)
    /\ inv[i].calls = 1

\* the shapes format_value knows, in the order it is to try them
ShapeOrder == <<"parser", "ndarray", "seq", "dict", "fields", "str">>
\* value v has the shape
Matches(shape, v) ==
  CASE shape = "parser" -> v.parser
    [] shape = "ndarray" -> v.ndarray
    [] shape = "seq" -> v.seq
    [] shape = "dict" -> v.dict
    [] shape = "fields" -> v.fields
    [] OTHER -> TRUE
\* the text a shape is rendered as
Rendering(shape, v) ==
  CASE shape = "parser" -> <<"ArgumentParser()">>
    [] shape = "ndarray" -> <<"ndarray(shape=", v.shape, ", dtype=", v.dtype, ")">>
    [] shape = "seq" -> <<v.typeName, "(len=", v.len, ")">>
    [] shape = "dict" -> <<"dict(keys=", v.keys, ")">>
    [] shape = "fields" -> <<v.typeName, "()">>
    [] OTHER -> <<v.str>>
\* what a shape's rendering calls on the value fails
RenderingRaises(shape, v) ==
  \/ shape = "seq" /\ v.lenRaises
  \/ shape = "dict" /\ v.keysRaise
  \/ shape = "str" /\ v.strRaises
\* the earliest shape of the order that v has
FirstShape(v) ==
  ShapeOrder[CHOOSE k \in 1..Len(ShapeOrder) :
               /\ Matches(ShapeOrder[k], v)
               /\ \A j \in 1..(k - 1) : ~Matches(ShapeOrder[j], v)]
\* how many shapes v has, the fallback string conversion not counted
ShapeCount(v) ==
  Cardinality({k \in 1..(Len(ShapeOrder) - 1) : Matches(ShapeOrder[k], v)})

\* C11: format_value renders a value by the first shape it matches in the
\* order argument parser, numeric array, list/tuple, dict, object with named
\* fields, string conversion: whatever other shapes the value has as well,
\* the result is the rendering of the earliest one (and when that rendering
\* raises, no later shape is tried).
C11_FirstShapeWins ==
  fv.called =>
    LET shape == FirstShape(fv.value)
    IN IF RenderingRaises(shape, fv.value)
         THEN ~fv.out.ok
         ELSE fv.out = [ok |-> TRUE, s |-> Rendering(shape, fv.value)]

\* C11 witness: a dict subclass with named fields has been formatted, as a
\* dict.
C11_Witness ==
  /\ fv.called
  /\ fv.value.dict /\ fv.value.fields /\ ~fv.value.parser
  /\ ShapeCount(fv.value) = 2
  /\ fv.out = [ok |-> TRUE, s |-> <<"dict(keys=", "['a']", ")">>]

\* C12: format_value is total: for every value of every shape the call
\* returns a string and does not raise, also when the value's own __len__,
\* keys() or __str__ raises.
C12_FormatValueTotal ==
  fv.called => fv.out.ok

\* the entry batch of invocation i is complete in both of its files
EntryLogged(i) ==
  \A p \in LogPaths(i) : CountTag(p, i, "entry", "START") = 1
\* invocation i has started to write a completion batch
CompletionStarted(i) ==
  /\ inv[i].pc # "unused"
  /\ \/ inv[i].pc \in {"success_write", "failure_write"}
     \/ \E p \in LogPaths(i) :
          CountTag(p, i, "success", "NESTED CALLS")
            + CountTag(p, i, "failure", "ERROR") >= 1

\* the hook is installed only after the whole entry batch is in both files
C13_EntryBeforeArm ==
  \A i \in InvIds : inv[i].armed >= 1 => EntryLogged(i)
\* the target is called only with the hook installed
C13_ArmBeforeTarget ==
  \A i \in InvIds : inv[i].calls >= 1 => inv[i].armed >= 1
\* the result is formatted only after the hook is removed
C13_DisarmBeforeFormat ==
  \A i \in InvIds :
    inv[i].result_repr # <<>>
      => inv[i].disarmed = inv[i].armed /\ hook[inv[i].thread] # i
\* no completion batch before the target has returned or raised
C13_TargetBeforeCompletion ==
  \A i \in InvIds :
    CompletionStarted(i) => inv[i].targetOutcome.kind # "none"
\* an armed invocation is disarmed before it writes its completion batch and
\* before it is over
C13_DisarmBeforeIdle ==
  \A i \in InvIds :
    (inv[i].armed >= 1 /\ (CompletionStarted(i) \/ Done(i)))
      => inv[i].disarmed = inv[i].armed

\* C13: every invocation goes Idle, EntryLogged, Armed, Disarmed, Idle: the
\* whole entry batch is in both files before the hook is installed, the hook
\* is installed before the target is called, the hook is removed before the
\* result is formatted and before the completion batch, success or failure,
\* is written, and no completion batch is written before the target has
\* returned or raised.
C13_InvocationOrder ==
  /\ C13_EntryBeforeArm
  /\ C13_ArmBeforeTarget
  /\ C13_DisarmBeforeFormat
  /\ C13_TargetBeforeCompletion
  /\ C13_DisarmBeforeIdle

\* the function names of a list of nested-call entries, in order
EntryNames(es) == [k \in 1..Len(es) |-> es[k].function]

\* C14: the nested calls an invocation writes in its completion batch are
\* those of its own list, and every entry of that list was observed inside
\* the invocation's own window, after its arm and before its disarm: the
\* list starts empty at the arm, so it holds no entry observed during
\* another invocation's window outside its own and none left over from an
\* earlier invocation, be the invocations sequential, nested, or after one
\* that failed.
C14_NestedOnlyOwnWindow ==
  \A i \in InvIds :
    /\ inv[i].armed >= 1
         => \A k \in 1..Len(nested_calls[i]) : i \in nested_calls[i][k].seen
    /\ inv[i].armed = 0 => nested_calls[i] = <<>>
    /\ inv[i].pc = "success_write"
         => NestedNames(inv[i].batch) = EntryNames(nested_calls[i])

\* C14 witness: an invocation writes a completion batch with two nested
\* calls after another invocation failed and left its hook installed, which
\* went on to record the caller's and the new wrapper's function entries.
C14_Witness ==
  \E i, j \in InvIds :
    /\ i # j
    /\ Done(j) /\ inv[j].outcome.kind = "raise"
    /\ inv[j].armed = 1 /\ inv[j].disarmed = 0
    /\ callerCalls[inv[j].thread] = 1
    /\ Len(nested_calls[j]) >= 4
    /\ inv[i].pc = "success_write"
    /\ EntryNames(nested_calls[i]) = <<inv[i].func, "helper">>
    /\ Len(NestedNames(inv[i].batch)) = 2

\* the functions among cs whose name does not begin with '_'
Public(cs) == SelectSeq(cs, LAMBDA c : ~c.underscore)
\* formatting a parameter of the function entry c raises
ParamsUnformattable(c) ==
  \E k \in 1..Len(c.params) : ~format_value(c.params[k]).ok

\* C15: while a hook is installed, each function entry it is shown whose
\* name does not begin with '_' appends exactly one entry to the hook's
\* list, in order, with the function's name and file: the formatted
\* parameters, or the placeholder when formatting a parameter raises (the
\* callback catches the error, so it returns and the entry is there); a
\* function whose name begins with '_' appends nothing.
C15_OneEntryPerCall ==
  observed.hook # 0 =>
    LET all == nested_calls[observed.hook]
        new == SubSeq(all, observed.before + 1, Len(all))
        shown == Public(observed.calls)
    IN /\ Len(all) = observed.before + Len(shown)
       /\ \A k \in 1..Len(shown) :
            /\ new[k].function = shown[k].name
            /\ new[k].file = shown[k].file
            /\ IF ParamsUnformattable(shown[k])
                 THEN /\ new[k].error
                      /\ Len(new[k].args) = 1
                      /\ new[k].args[1][1] = "<error getting args: "
                 ELSE /\ ~new[k].error
                      /\ new[k].args =
                           [m \in 1..Len(shown[k].params) |->
                              format_value(shown[k].params[m]).s]

\* C15 witness: the hook of an invocation whose target has a parameter that
\* cannot be formatted holds the placeholder entry for the target, and has
\* just been shown the entry of _private and appended nothing.
C15_Witness ==
  \E i \in InvIds :
    /\ observed.hook = i /\ hook[inv[i].thread] = i
    /\ Len(observed.calls) = 1 /\ observed.calls[1].underscore
    /\ observed.before = 1
    /\ Len(nested_calls[i]) = 1
    /\ nested_calls[i][1].function = inv[i].func
    /\ nested_calls[i][1].error
    /\ nested_calls[i][1].args[1][1] = "<error getting args: "

\* C16: a failed log-file write is never recovered or hidden: once a write
\* of an invocation's entry, success or failure batch has failed, the
\* invocation does nothing but write its failure batch, and it ends by
\* raising the I/O error to its caller, never by returning a result.
C16_WriteFailureRaises ==
  \A i \in InvIds :
    inv[i].ioErrors # {}
      => /\ inv[i].pc \in {"failure_write", "done"}
         /\ Done(i) => inv[i].outcome = Raised(OSErr)

\* C16 witness: the target returned, the success batch could not be written
\* to the second file, the failure batch was written to both files, and the
\* invocation ended with the I/O error.
C16_Witness ==
  \E i \in InvIds :
    /\ Done(i)
    /\ inv[i].targetOutcome.kind = "return"
    /\ inv[i].ioErrors = {<<"success_write", 2>>}
    /\ \A p \in LogPaths(i) : HasBatch(p, i, "failure")
    /\ inv[i].outcome = Raised(OSErr)

\* C17: a failure batch is written for an invocation only if its target
\* raised: when the target returned, no file gets an [ERROR] line of that
\* invocation, whatever happens while the success batch is written.
C17_FailureOnlyIfTargetRaised ==
  \A i \in InvIds :
    inv[i].pc # "unused" =>
      \A p \in LogPaths(i) :
        CountTag(p, i, "failure", "ERROR") >= 1
          => inv[i].targetOutcome.kind = "raise"

\* an open() for the entry batch of invocation i failed
EntryWriteFailed(i) ==
  \E k \in 1..2 : <<"entry_write", k>> \in inv[i].ioErrors

\* C18: an invocation calls its target at most once, and exactly once as
\* soon as the entry batch is complete in both files; if a write of the
\* entry batch fails, the target is not called and the invocation never
\* installs its hook.
C18_TargetCalledOnce ==
  \A i \in InvIds :
    inv[i].pc # "unused" =>
      /\ inv[i].calls <= 1
      /\ EntryLogged(i) => inv[i].calls = 1
      /\ EntryWriteFailed(i)
           => /\ inv[i].calls = 0
              /\ inv[i].armed = 0
              /\ hook[inv[i].thread] # i
              /\ Done(i)

\* C18 witness: two invocations are over, one whose entry batch reached the
\* first file only and whose target was never called, and one whose target
\* was called once and returned.
C18_Witness ==
  \E i, j \in InvIds :
    /\ Done(i)
    /\ inv[i].ioErrors = {<<"entry_write", 2>>}
    /\ HasBatch(GlobalLog, i, "entry")
    /\ inv[i].calls = 0 /\ inv[i].armed = 0
    /\ Done(j)
    /\ inv[j].calls = 1 /\ inv[j].armed = 1
    /\ inv[j].outcome.kind = "return"

====
